---------------------------- MODULE Spec2Model ----------------------------
(***************************************************************************)
(* The /save-data endpoint of interview-refactoring-task.                  *)
(*                                                                         *)
(* The repository holds two programs.  src/main.go is the server as it is  *)
(* built and run (DataHandler, DataStorage, Database).  src/README.md      *)
(* lists that server's design flaws and, from line 141 on, carries the     *)
(* refactored reference server (HTTPHandler, DataService, RequestValidator,*)
(* ConcreteStorageFactory, FileStorage, DatabaseStorage,                   *)
(* DatabaseConnection, APIServer).  Both are modelled here, each with its  *)
(* own next-state relation over the same variables:                        *)
(*                                                                         *)
(*   SpecMain      main.go, one request handled per step                   *)
(*   SpecSolution  the README server, one request handled per step         *)
(*   SpecService   the object graph NewAPIServer builds, driven through    *)
(*                 DataService.SaveData and APIServer.Shutdown             *)
(*   SpecConc      the README server with file saves interleaved at their  *)
(*                 system calls (net/http runs each handler in its own     *)
(*                 goroutine)                                              *)
(*                                                                         *)
(* A Go error is modelled by the list of the parts of its message, outer   *)
(* wrapper first: fmt.Errorf("validation failed: %w", err) puts            *)
(* "validation failed" in front of the parts of err, and err.Error() is the*)
(* whole list.  The nil error is the empty list.                           *)
(*                                                                         *)
(* The request body is taken after transport: it is unreadable (io.ReadAll *)
(* fails), malformed (json.Unmarshal fails, bad base64 included) or a JSON *)
(* object whose "data" decodes to a byte sequence.                         *)
(***************************************************************************)
EXTENDS Integers, Sequences, FiniteSets, TLC

VARIABLES
    mainPc,        \* position of func main: "start", "constructed", "serving", "exited"
    database,      \* README.md:189-196, the server's DatabaseConnection: NoConn (nil)
                   \* or [connected, live]
    connsCreated,  \* calls of NewDatabase (main.go:21) / NewDatabaseConnection so far
    closeCalls,    \* calls of DatabaseConnection.Close (README.md:223) so far
    file,          \* data.txt (main.go:50, README.md:248): [exists, content]
    dbLast,        \* what the database's write primitive (main.go:36, README.md:219)
                   \* was last handed, or NoWrite
    last,          \* the last completed exchange (request, response, what it did)
    inflight,      \* SpecConc: per goroutine, the file save it is in the middle of
    okSaves,       \* SpecConc: payloads of the file saves that returned nil
    osFailed       \* SpecConc: whether os.Create or file.Write has failed so far

vars == <<mainPc, database, connsCreated, closeCalls, file, dbLast, last, inflight, okSaves, osFailed>>

---------------------------------------------------------------------------
(* Bounds and input sets *)

MaxLen == 1
MaxConns == 2
MaxClose == 2
MaxInflight == 2
MaxFileLen == 2

Bytes == {"a", "b"}
\* Request payloads; FilePayloads are those of the interleaved file saves.
Payloads == UNION {[1..n -> Bytes] : n \in 0..MaxLen}
FilePayloads == UNION {[1..n -> Bytes] : n \in 0..MaxFileLen}
Kinds == {"file", "database", "memory", "redis", ""}
Methods == {"POST", "GET"}

\* Bodies: only an object carries data and storage_type.
Bodies ==
    {[shape |-> s, data |-> <<>>, storage_type |-> ""] : s \in {"unreadable", "malformed"}}
    \cup {[shape |-> "object", data |-> d, storage_type |-> k] : d \in Payloads, k \in Kinds}

Nil == <<>>
NoConn == [connected |-> FALSE, live |-> FALSE]
NoWrite == <<"no write">>
NoFile == [exists |-> FALSE, content |-> <<>>]

---------------------------------------------------------------------------
(* The file system calls the code makes on data.txt *)

\* os.Create(name): O_RDWR|O_CREATE|O_TRUNC.  On success the file exists and is
\* empty; on failure nothing changes.
os_Create(f, ok) ==
    IF ok THEN [exists |-> TRUE, content |-> <<>>] ELSE f

\* file.Write(data) on a descriptor opened by os.Create and not written before:
\* the descriptor's own offset is 0, so the n bytes written replace the first n
\* bytes of whatever the file holds now and leave the rest.
file_Write(f, data, n) ==
    [exists |-> f.exists,
     content |-> SubSeq(data, 1, n) \o SubSeq(f.content, n + 1, Len(f.content))]


\* What one call of a save routine did.  err, file and dbLast are the routine's
\* result and the stores after it; the other fields count what it called:
\* persist (storage branches or Storage.Save methods entered), conns (connections
\* constructed), saved (payloads handed to the database's write primitive),
\* created / createFailed (os.Create succeeded / failed), writeShort (file.Write
\* wrote fewer bytes than asked, which is when it reports an error).
Effect(err, f, db, persist, conns, saved, created, createFailed, writeShort) ==
    [err |-> err, file |-> f, dbLast |-> db, persist |-> persist, conns |-> conns,
     saved |-> saved, created |-> created, createFailed |-> createFailed,
     writeShort |-> writeShort]

NoEffect(err, f, db) == Effect(err, f, db, 0, 0, 0, FALSE, FALSE, FALSE)

\* json.Unmarshal(body, &req) into {Data []byte `json:"data"`, StorageType string}.
Unmarshal(body) ==
    IF body.shape = "object"
    THEN [err |-> Nil, Data |-> body.data, StorageType |-> body.storage_type]
    ELSE [err |-> <<"invalid character">>, Data |-> <<>>, StorageType |-> ""]

\* One completed exchange, as kept in `last`.
Exchange(method, body, bodyRead, decoded, saveCalled, status, respBody, e) ==
    [method |-> method, shape |-> body.shape, data |-> body.data,
     kind |-> body.storage_type, bodyRead |-> bodyRead, decoded |-> decoded,
     saveCalled |-> saveCalled, status |-> status, respBody |-> respBody,
     effect |-> e]

---------------------------------------------------------------------------
(* src/main.go *)

\* Database.Save: the mock write primitive; it never fails.
Database_Save(data) == [err |-> Nil, dbLast |-> data]

\* DataStorage.SaveData.  createOK and n are what the operating system does: whether
\* os.Create succeeds and how many bytes file.Write writes.  The error of
\* file.Write is dropped (line 55) and the branch returns nil.  The "database"
\* branch constructs a Database for this call (line 59).
DataStorage_SaveData(storageType, data, f, db, createOK, n) ==
    IF storageType = "file"
    THEN IF ~createOK
         THEN Effect(<<"open data.txt", "permission denied">>, f, db,
                     1, 0, 0, FALSE, TRUE, FALSE)
         ELSE Effect(Nil, file_Write(os_Create(f, TRUE), data, n), db,
                     1, 0, 0, TRUE, FALSE, n < Len(data))
    ELSE IF storageType = "database"
    THEN Effect(Nil, f, Database_Save(data).dbLast, 1, 1, 1, FALSE, FALSE, FALSE)
    ELSE NoEffect(<<"unsupported storage type", storageType>>, f, db)

\* DataHandler.HandleSaveData: no method check; every error of SaveData is a 500.
DataHandler_HandleSaveData(method, body, f, db, createOK, n) ==
    IF body.shape = "unreadable"
    THEN Exchange(method, body, TRUE, FALSE, FALSE, 400, <<"Failed to read body">>,
                  NoEffect(Nil, f, db))
    ELSE LET req == Unmarshal(body) IN
         IF req.err # Nil
         THEN Exchange(method, body, TRUE, FALSE, FALSE, 400, <<"Invalid JSON">>,
                       NoEffect(Nil, f, db))
         ELSE LET e == DataStorage_SaveData(req.StorageType, req.Data, f, db, createOK, n) IN
              IF e.err # Nil
              THEN Exchange(method, body, TRUE, TRUE, TRUE, 500, e.err, e)
              ELSE Exchange(method, body, TRUE, TRUE, TRUE, 200,
                            <<"Data saved successfully">>, e)

---------------------------------------------------------------------------
(* src/README.md, the refactored server (lines 141-470) *)

\* fmt.Errorf(prefix + ": %w", err)
Wrap(prefix, err) == <<prefix>> \o err

\* FileStorage.Save with filename "data.txt": both os.Create's and file.Write's
\* errors are returned.
FileStorage_Save(data, f, db, createOK, n) ==
    IF ~createOK
    THEN Effect(Wrap("failed to create file", <<"open data.txt", "permission denied">>),
                f, db, 1, 0, 0, FALSE, TRUE, FALSE)
    ELSE LET g == file_Write(os_Create(f, TRUE), data, n) IN
         IF n < Len(data)
         THEN Effect(Wrap("failed to write to file", <<"write data.txt", "no space left on device">>),
                     g, db, 1, 0, 0, TRUE, FALSE, TRUE)
         ELSE Effect(Nil, g, db, 1, 0, 0, TRUE, FALSE, FALSE)

\* A slip of DatabaseConnection.Save: the connected check is missing.
DatabaseConnection_Save_Unchecked(conn, data, f, db) ==
    Effect(Nil, f, data, 1, 0, 1, FALSE, FALSE, FALSE)

\* DatabaseConnection.Save: refuses when the connection is not connected, else
\* hands the data to the (mock) write primitive.
DatabaseConnection_Save(conn, data, f, db) ==
    IF ~conn.connected
    THEN Effect(<<"database connection not established">>, f, db,
                1, 0, 0, FALSE, FALSE, FALSE)
    ELSE Effect(Nil, f, data, 1, 0, 1, FALSE, FALSE, FALSE)

\* DatabaseStorage.Save delegates to its connection.
DatabaseStorage_Save(conn, data, f, db) == DatabaseConnection_Save(conn, data, f, db)

\* NewDatabaseConnection: always succeeds, connected.
NewDatabaseConnection == [connected |-> TRUE, live |-> TRUE]

\* DatabaseConnection.Close
DatabaseConnection_Close(conn) == [conn EXCEPT !.connected = FALSE]

\* ConcreteStorageFactory.CreateStorage; conn is the factory's database field
\* (a nil pointer is a connection that is not live).
ConcreteStorageFactory_CreateStorage(storageType, conn) ==
    CASE storageType = "file" -> [err |-> Nil, storage |-> "FileStorage"]
      [] storageType = "database" ->
            IF ~conn.live
            THEN [err |-> <<"database connection not available">>, storage |-> "none"]
            ELSE [err |-> Nil, storage |-> "DatabaseStorage"]
      [] OTHER -> [err |-> <<"unsupported storage type", storageType>>, storage |-> "none"]

ValidTypes == {"file", "database"}

\* RequestValidator.ValidateRequest
RequestValidator_ValidateRequest(req) ==
    IF Len(req.Data) = 0 THEN <<"data cannot be empty">>
    ELSE IF req.StorageType = "" THEN <<"storage type cannot be empty">>
    ELSE IF req.StorageType \in ValidTypes THEN Nil
    ELSE <<"invalid storage type", req.StorageType>>

\* A slip of DataService.SaveData: the request is not validated.
DataService_SaveData_NoValidation(req, conn, f, db, createOK, n) ==
    LET made == ConcreteStorageFactory_CreateStorage(req.StorageType, conn) IN
    IF made.err # Nil
    THEN NoEffect(Wrap("failed to create storage", made.err), f, db)
    ELSE LET e == IF made.storage = "FileStorage"
                  THEN FileStorage_Save(req.Data, f, db, createOK, n)
                  ELSE DatabaseStorage_Save(conn, req.Data, f, db) IN
         IF e.err # Nil
         THEN [e EXCEPT !.err = Wrap("failed to save data", e.err)]
         ELSE e

\* DataService.SaveData: validate, create the storage, save.
DataService_SaveData(req, conn, f, db, createOK, n) ==
    LET invalid == RequestValidator_ValidateRequest(req) IN
    IF invalid # Nil
    THEN NoEffect(Wrap("validation failed", invalid), f, db)
    ELSE LET made == ConcreteStorageFactory_CreateStorage(req.StorageType, conn) IN
         IF made.err # Nil
         THEN NoEffect(Wrap("failed to create storage", made.err), f, db)
         ELSE LET e == IF made.storage = "FileStorage"
                       THEN FileStorage_Save(req.Data, f, db, createOK, n)
                       ELSE DatabaseStorage_Save(conn, req.Data, f, db) IN
              IF e.err # Nil
              THEN [e EXCEPT !.err = Wrap("failed to save data", e.err)]
              ELSE e

\* The status HTTPHandler.HandleSaveData picks for an error of SaveData:
\* err.Error() is compared with the bare string "validation failed".
StatusFor(err) == IF err = <<"validation failed">> THEN 400 ELSE 500

\* HTTPHandler.HandleSaveData
HTTPHandler_HandleSaveData(method, body, conn, f, db, createOK, n) ==
    IF method # "POST"
    THEN Exchange(method, body, FALSE, FALSE, FALSE, 405, <<"Method not allowed">>,
                  NoEffect(Nil, f, db))
    ELSE IF body.shape = "unreadable"
    THEN Exchange(method, body, TRUE, FALSE, FALSE, 400, <<"Failed to read body">>,
                  NoEffect(Nil, f, db))
    ELSE LET req == Unmarshal(body) IN
         IF req.err # Nil
         THEN Exchange(method, body, TRUE, FALSE, FALSE, 400, <<"Invalid JSON format">>,
                       NoEffect(Nil, f, db))
         ELSE LET e == DataService_SaveData(req, conn, f, db, createOK, n) IN
              IF e.err # Nil
              THEN Exchange(method, body, TRUE, TRUE, TRUE, StatusFor(e.err), e.err, e)
              ELSE Exchange(method, body, TRUE, TRUE, TRUE, 200,
                            <<"message", "Data saved successfully", "status", "success">>, e)

---------------------------------------------------------------------------
(* State machines *)

NoExchange ==
    [method |-> "none", shape |-> "none", data |-> <<>>, kind |-> "",
     bodyRead |-> FALSE, decoded |-> FALSE, saveCalled |-> FALSE, status |-> 0,
     respBody |-> <<>>, effect |-> NoEffect(Nil, NoFile, NoWrite),
     fileChanged |-> FALSE, dbChanged |-> FALSE, connBefore |-> NoConn]

Idle == [pc |-> "idle", data |-> <<>>]

\* The exchange x as kept in `last`: with whether it changed a store, and the
\* connection as it was when the exchange began.
Kept(x) ==
    [method |-> x.method, shape |-> x.shape, data |-> x.data, kind |-> x.kind,
     bodyRead |-> x.bodyRead, decoded |-> x.decoded, saveCalled |-> x.saveCalled,
     status |-> x.status, respBody |-> x.respBody, effect |-> x.effect,
     fileChanged |-> x.effect.file # file, dbChanged |-> x.effect.dbLast # dbLast,
     connBefore |-> database]

\* The process before func main has run, in a directory without data.txt.
Init ==
    /\ mainPc = "start"
    /\ database = NoConn
    /\ connsCreated = 0
    /\ closeCalls = 0
    /\ file = NoFile
    /\ dbLast = NoWrite
    /\ last = NoExchange
    /\ inflight = [s \in 1..MaxInflight |-> Idle]
    /\ okSaves = {}
    /\ osFailed = FALSE

\* What the operating system may do during one request: os.Create succeeds or
\* fails and file.Write writes n of the bytes.  Only a request for the "file"
\* storage reaches those calls, so for the others one choice stands for all.
OSChoice(body, createOK, n) ==
    /\ n <= Len(body.data)
    /\ (body.shape # "object" \/ body.storage_type # "file") =>
          (createOK /\ n = Len(body.data))

\* An exchange x takes effect.
Complete(x) ==
    /\ connsCreated + x.effect.conns <= MaxConns
    /\ last' = Kept(x)
    /\ file' = x.effect.file
    /\ dbLast' = x.effect.dbLast
    /\ connsCreated' = connsCreated + x.effect.conns

(* main.go *)

\* main: the handler is registered and http.ListenAndServe binds :8080.
Main_ListenAndServe ==
    /\ mainPc = "start"
    /\ mainPc' = "serving"
    /\ UNCHANGED <<database, connsCreated, closeCalls, file, dbLast, last, inflight, okSaves, osFailed>>

\* main: http.ListenAndServe returns (it only returns an error; a failed bind
\* returns at once) and log.Fatal ends the process.
Main_Fatal ==
    /\ mainPc \in {"start", "serving"}
    /\ mainPc' = "exited"
    /\ UNCHANGED <<database, connsCreated, closeCalls, file, dbLast, last, inflight, okSaves, osFailed>>

\* One request to /save-data, handled by DataHandler.HandleSaveData.
Main_HandleSaveData ==
    /\ mainPc = "serving"
    /\ \E method \in Methods, body \in Bodies, createOK \in BOOLEAN, n \in 0..MaxLen :
          /\ OSChoice(body, createOK, n)
          /\ Complete(DataHandler_HandleSaveData(method, body, file, dbLast, createOK, n))
    /\ UNCHANGED <<mainPc, database, closeCalls, inflight, okSaves, osFailed>>

NextMain == Main_ListenAndServe \/ Main_Fatal \/ Main_HandleSaveData

SpecMain == Init /\ [][NextMain]_vars

(* README server *)

\* main -> NewAPIServer: the one NewDatabaseConnection call, then the object graph.
NewAPIServer ==
    /\ mainPc = "start"
    /\ mainPc' = "constructed"
    /\ database' = NewDatabaseConnection
    /\ connsCreated' = connsCreated + 1
    /\ UNCHANGED <<closeCalls, file, dbLast, last, inflight, okSaves, osFailed>>

\* APIServer.Start: handlers registered, http.ListenAndServe binds the port.
APIServer_Start ==
    /\ mainPc = "constructed"
    /\ mainPc' = "serving"
    /\ UNCHANGED <<database, connsCreated, closeCalls, file, dbLast, last, inflight, okSaves, osFailed>>

\* main, lines 467-469: Start returns (http.ListenAndServe only returns a non-nil
\* error; a failed bind returns at once) and log.Fatal calls os.Exit(1).  os.Exit
\* does not run deferred functions, so the deferred server.Shutdown of lines
\* 460-464 is not run and DatabaseConnection.Close is not called.
Solution_Fatal ==
    /\ mainPc \in {"constructed", "serving"}
    /\ mainPc' = "exited"
    /\ UNCHANGED <<database, connsCreated, closeCalls, file, dbLast, last, inflight, okSaves, osFailed>>

\* One request to /save-data, handled by HTTPHandler.HandleSaveData.
Solution_HandleSaveData ==
    /\ mainPc = "serving"
    /\ \E method \in Methods, body \in Bodies, createOK \in BOOLEAN, n \in 0..MaxLen :
          /\ OSChoice(body, createOK, n)
          /\ Complete(HTTPHandler_HandleSaveData(method, body, database, file, dbLast,
                                                 createOK, n))
    /\ UNCHANGED <<mainPc, database, closeCalls, inflight, okSaves, osFailed>>

NextSolution == NewAPIServer \/ APIServer_Start \/ Solution_Fatal \/ Solution_HandleSaveData

SpecSolution == Init /\ [][NextSolution]_vars

(* The object graph of NewAPIServer, driven directly *)

InitService ==
    /\ mainPc = "constructed"
    /\ database = NewDatabaseConnection
    /\ connsCreated = 1
    /\ closeCalls = 0
    /\ file = NoFile
    /\ dbLast = NoWrite
    /\ last = NoExchange
    /\ inflight = [s \in 1..MaxInflight |-> Idle]
    /\ okSaves = {}
    /\ osFailed = FALSE

\* A call of DataService.SaveData(req).
Service_SaveData ==
    /\ \E body \in Bodies, createOK \in BOOLEAN, n \in 0..MaxLen :
          /\ body.shape = "object"
          /\ OSChoice(body, createOK, n)
          /\ LET e == DataService_SaveData(Unmarshal(body), database, file, dbLast,
                                           createOK, n) IN
             Complete(Exchange("call", body, FALSE, TRUE, TRUE, 0, e.err, e))
    /\ UNCHANGED <<mainPc, database, closeCalls, inflight, okSaves, osFailed>>

\* A call of APIServer.Shutdown, which closes the connection.
APIServer_Shutdown ==
    /\ closeCalls < MaxClose
    /\ database' = DatabaseConnection_Close(database)
    /\ closeCalls' = closeCalls + 1
    /\ UNCHANGED <<mainPc, connsCreated, file, dbLast, last, inflight, okSaves, osFailed>>

NextService == Service_SaveData \/ APIServer_Shutdown

SpecService == InitService /\ [][NextService]_vars

(* README server, file saves interleaved *)

InitConc ==
    /\ mainPc = "serving"
    /\ database = NewDatabaseConnection
    /\ connsCreated = 1
    /\ closeCalls = 0
    /\ file = NoFile
    /\ dbLast = NoWrite
    /\ last = NoExchange
    /\ inflight = [s \in 1..MaxInflight |-> Idle]
    /\ okSaves = {}
    /\ osFailed = FALSE

\* Goroutine s takes a POST that passes validation with storage type "file" and
\* runs FileStorage.Save up to and including os.Create.  If os.Create fails the
\* call returns its error at once.
FileStorage_Save_Create(s) ==
    /\ mainPc = "serving"
    /\ inflight[s].pc = "idle"
    /\ \E data \in FilePayloads, createOK \in BOOLEAN :
          /\ RequestValidator_ValidateRequest([Data |-> data, StorageType |-> "file"]) = Nil
          /\ ConcreteStorageFactory_CreateStorage("file", database).storage = "FileStorage"
          /\ file' = os_Create(file, createOK)
          /\ inflight' = [inflight EXCEPT ![s] =
                            IF createOK THEN [pc |-> "write", data |-> data] ELSE Idle]
          /\ osFailed' = (osFailed \/ ~createOK)
    /\ UNCHANGED <<mainPc, database, connsCreated, closeCalls, dbLast, last, okSaves>>

\* Goroutine s runs the rest of FileStorage.Save: file.Write on its own
\* descriptor, then the return (nil when all bytes were written).
FileStorage_Save_Write(s) ==
    /\ mainPc = "serving"
    /\ inflight[s].pc = "write"
    /\ \E n \in 0..Len(inflight[s].data) :
          /\ file' = file_Write(file, inflight[s].data, n)
          /\ okSaves' = IF n = Len(inflight[s].data)
                        THEN okSaves \cup {inflight[s].data} ELSE okSaves
          /\ osFailed' = (osFailed \/ n < Len(inflight[s].data))
    /\ inflight' = [inflight EXCEPT ![s] = Idle]
    /\ UNCHANGED <<mainPc, database, connsCreated, closeCalls, dbLast, last>>

NextConc == \E s \in 1..MaxInflight : FileStorage_Save_Create(s) \/ FileStorage_Save_Write(s)

SpecConc == InitConc /\ [][NextConc]_vars

---------------------------------------------------------------------------
(* Properties *)

\* The storage kinds the specification calls recognized.
RecognizedKinds == {"file", "database", "memory"}

\* The outcome class of a save routine's error, read from the stage that made
\* it: the validator, the storage selection, or the storage itself.
OutcomeClass(err) ==
    CASE err = Nil -> "Success"
      [] err # Nil /\ Head(err) = "validation failed" -> "ValidationError"
      [] err # Nil /\ Head(err) \in {"failed to create storage", "unsupported storage type"}
            -> "UnsupportedStorageKind"
      [] OTHER -> "PersistenceError"

Parts(err) == {err[i] : i \in 1..Len(err)}

\* The content the storage of a kind holds now (there is no memory storage).
PersistedContent(kind) ==
    CASE kind = "file" -> file.content
      [] kind = "database" -> dbLast
      [] OTHER -> NoWrite

Untouched(x) ==
    /\ x.effect.persist = 0
    /\ ~x.effect.created
    /\ x.effect.saved = 0
    /\ ~x.fileChanged
    /\ ~x.dbChanged

AllReturned == \A s \in 1..MaxInflight : inflight[s].pc = "idle"

\* C1 (as claimed; SpecSolution): a decoded POST that the save service rejects as a
\* client error (validation or unsupported storage kind) is answered 400 with the
\* error as body, never 500.
C1_ClientErrorIs400 ==
    (last.saveCalled
        /\ OutcomeClass(last.effect.err) \in {"ValidationError", "UnsupportedStorageKind"})
    => (last.status = 400 /\ last.respBody = last.effect.err)

\* C2 (as claimed; SpecMain): with a non-empty payload and a recognized kind (file,
\* database, memory), and the operating system failing nothing, the save
\* succeeds and the storage of that kind then holds exactly the payload.
C2_RecognizedKindSaved ==
    (last.saveCalled /\ last.data # <<>> /\ last.kind \in RecognizedKinds
        /\ ~last.effect.createFailed /\ ~last.effect.writeShort)
    => (last.effect.err = Nil /\ PersistedContent(last.kind) = last.data)

\* C3 (as claimed; SpecSolution): for a storage kind outside the recognized set the
\* save returns UnsupportedStorageKind, and no storage is invoked or changed.
C3_UnknownKindIsUnsupported ==
    (last.saveCalled /\ last.kind \notin RecognizedKinds)
    => (OutcomeClass(last.effect.err) = "UnsupportedStorageKind" /\ Untouched(last))

\* C3 (amended; SpecSolution): for a storage kind outside the recognized set
\* DataService.SaveData returns ValidationError, the validator rejecting the
\* request before the storage selection, and no storage is invoked or changed.
C3_UnknownKindIsValidationError ==
    (last.saveCalled /\ last.kind \notin RecognizedKinds)
    => (OutcomeClass(last.effect.err) = "ValidationError" /\ Untouched(last))

\* C3 witness: a request for "redis" with a payload was rejected by the validator
\* while data.txt and the database both held earlier saves.
C3_Witness ==
    /\ last.saveCalled
    /\ last.kind = "redis"
    /\ last.data # <<>>
    /\ last.effect.err = <<"validation failed", "invalid storage type", "redis">>
    /\ file.exists /\ file.content # <<>>
    /\ dbLast # NoWrite

\* C3 on main.go (SpecMain), where there is no validator: DataStorage.SaveData
\* itself answers "unsupported storage type" and touches nothing.
Main_UnknownKindIsUnsupported == C3_UnknownKindIsUnsupported

\* C4 (as claimed; SpecMain): an empty payload is rejected as ValidationError
\* whatever the storage kind, before any side effect (no file created or
\* truncated, nothing written to the database).
C4_EmptyPayloadRejected ==
    (last.saveCalled /\ last.data = <<>> /\ ~last.effect.createFailed)
    => (OutcomeClass(last.effect.err) = "ValidationError" /\ Untouched(last))

\* C5 (as claimed; SpecMain): a request whose method is not POST ends with 405, its
\* body neither read nor decoded, the save service not called, no storage changed.
C5_NonPostIs405 ==
    (last.method \in Methods /\ last.method # "POST")
    => (last.status = 405 /\ ~last.bodyRead /\ ~last.decoded /\ ~last.saveCalled
        /\ Untouched(last))

\* C6 (as claimed; SpecMain): when os.Create or file.Write fails, the save returns
\* PersistenceError and the response is 500, never 200.
C6_FileFailureIs500 ==
    (last.effect.createFailed \/ last.effect.writeShort)
    => (OutcomeClass(last.effect.err) = "PersistenceError" /\ last.status = 500)

\* C7 (SpecService): a database save against a connection that is not connected
\* returns PersistenceError "database connection not established", hands nothing
\* to the write primitive, and leaves connection, database and file as they were.
C7_NotConnectedRefused ==
    (last.kind = "database" /\ last.effect.persist = 1 /\ ~last.connBefore.connected)
    => /\ OutcomeClass(last.effect.err) = "PersistenceError"
       /\ "database connection not established" \in Parts(last.effect.err)
       /\ last.effect.saved = 0
       /\ ~last.dbChanged
       /\ ~last.fileChanged
       /\ database = last.connBefore

\* C7 witness: after an earlier database save went through, the connection was
\* closed and the next database save was refused.
C7_Witness ==
    /\ last.kind = "database"
    /\ last.effect.persist = 1
    /\ ~last.connBefore.connected
    /\ closeCalls > 0
    /\ dbLast # NoWrite
    /\ last.effect.err = <<"failed to save data", "database connection not established">>

\* C8 (as claimed; SpecMain): handling a request for the "database" storage creates
\* no connection; the one connection is the one made at startup.
C8_NoConnectionPerRequest ==
    (last.saveCalled /\ last.kind = "database")
    => (last.effect.conns = 0 /\ connsCreated = 1)

\* C9 (as claimed; SpecSolution): when the server has stopped, Close has been called
\* exactly once.
C9_ClosedOnceAtExit ==
    mainPc = "exited" => closeCalls = 1

\* C10 (as claimed; SpecConc): once every file save has returned, data.txt holds
\* exactly the payload of one of the saves that returned success.  Stated for
\* the runs in which the operating system failed nothing, so that every save
\* returned success and only the interleaving is left to decide the content.
C10_FileIsOneSuccessfulPayload ==
    (AllReturned /\ okSaves # {} /\ ~osFailed) => file.content \in okSaves

(* The README server on the claims that main.go breaks (SpecSolution) *)

Solution_EmptyPayloadRejected == C4_EmptyPayloadRejected

Solution_NonPostIs405 == C5_NonPostIs405

Solution_FileFailureIs500 == C6_FileFailureIs500

Solution_OneConnection ==
    /\ mainPc \in {"constructed", "serving", "exited"} => connsCreated = 1
    /\ last.effect.conns = 0

=============================================================================
